---- MODULE Spec2Model ----
(***************************************************************************)
(* Model of the chain-state store, api/services/chain/db.ts                *)
(* (class ChainDatabase, a Dexie/IndexedDB database "tally/chain").        *)
(*                                                                         *)
(* Tables are sets of rows.  A Dexie "rw" transaction scope on a table is  *)
(* a sequence of steps that holds the table exclusively from its first     *)
(* request to its commit; an operation outside an explicit scope is one    *)
(* request in its own implicit transaction and runs only while no scope    *)
(* holds the table.  Optional values (null / undefined) are the empty      *)
(* sequence, present values a one-element sequence.                        *)
(***************************************************************************)
EXTENDS Integers, Sequences, FiniteSets, TLC

\* ------------------------------------------------------------------------
\* Bounds of the model
\* ------------------------------------------------------------------------
MaxTicks == 1
MaxTxCalls == 3
MaxEntries == 2
MaxBlocks == 3
MaxBalances == 3
MaxMigCalls == 3

\* ------------------------------------------------------------------------
\* Value domains
\* ------------------------------------------------------------------------
Null == << >>

Some(v) == << v >>

\* Network names in ascending key order (IndexedDB compares strings by
\* code unit: "mainnet" < "ropsten").
NetworkNames == << "mainnet", "ropsten" >>

Networks == { NetworkNames[i] : i \in 1..Len(NetworkNames) }

NameRank(n) == CHOOSE i \in 1..Len(NetworkNames) : NetworkNames[i] = n

Hashes == { "0xA" }

Addresses == { "a1", "a2" }

DataSources == { "alchemy", "local" }

\* (blockHeight, blockHash) pairs a caller may pass: pending, or included
\* in a block.
BlockAssociations ==
    { [blockHeight |-> Null, blockHash |-> Null],
      [blockHeight |-> Some(100), blockHash |-> Some("0xB")] }

\* AnyEVMTransaction values handed to addOrUpdateTransaction.
EVMTransactions ==
    { [hash |-> h, network |-> n, from |-> f,
       blockHeight |-> a.blockHeight, blockHash |-> a.blockHash] :
        h \in Hashes, n \in Networks, f \in Addresses, a \in BlockAssociations }

Callers == { 1, 2 }

\* Block hashes in ascending key order.
BlockHashNames == << "0x1", "0x2", "0x3" >>

BlockHashes == { BlockHashNames[i] : i \in 1..Len(BlockHashNames) }

HashRank(h) == CHOOSE i \in 1..Len(BlockHashNames) : BlockHashNames[i] = h

\* How old the timestamp of a header is when it is stored, in the unit of
\* Date.now(): 10 seconds, 1 minute, 1 hour, 2 days.
BlockAges == { 10 * 1000, 60 * 1000, 60 * 60 * 1000, 2 * 24 * 60 * 60 * 1000 }

\* (account, asset symbol, network name) of balance rows and queries: one
\* subject, and subjects that differ from it in exactly one component.
BalanceSubjects ==
    { [account |-> "a1", symbol |-> "ETH", network |-> "mainnet"],
      [account |-> "a2", symbol |-> "ETH", network |-> "mainnet"],
      [account |-> "a1", symbol |-> "DAI", network |-> "mainnet"],
      [account |-> "a1", symbol |-> "ETH", network |-> "ropsten"] }

\* How old retrievedAt of a balance is when it is stored: 1, 5 and 8 days.
BalanceAges == { 24 * 60 * 60 * 1000, 5 * 24 * 60 * 60 * 1000, 8 * 24 * 60 * 60 * 1000 }

\* AccountNetwork values: one entry, and entries that differ from it in
\* exactly one of network.family, account, network.name.
AccountNetworks ==
    { [account |-> "a1", family |-> "EVM", chainID |-> "1", name |-> "mainnet"],
      [account |-> "a1", family |-> "BTC", chainID |-> "1", name |-> "mainnet"],
      [account |-> "a2", family |-> "EVM", chainID |-> "1", name |-> "mainnet"],
      [account |-> "a1", family |-> "EVM", chainID |-> "1", name |-> "ropsten"] }

\* The arrays [...accountAndNetworks] handed to bulkAdd.
EntryLists == UNION { [1..k -> AccountNetworks] : k \in 0..MaxEntries }

\* No query has been made since the store or the clock last changed.
NoQuery == [asked |-> FALSE]

\* Date.now() at construction, and the time between two readings of it.
Epoch == 10 * 24 * 60 * 60 * 1000

ClockStep == 24 * 60 * 60 * 1000

VARIABLES
    now,            \* Date.now()
    ticks,          \* number of clock advances so far
    transactions,   \* table transactions
    txPc,           \* position of each addOrUpdateTransaction call
    txArg,          \* its argument tx
    txSrc,          \* its argument dataSource
    txExisting,     \* its local existingTx
    txFault,        \* TRUE when the call's promise rejected
    txCalls,        \* number of calls made so far
    txPrev,         \* the last completed call, when it completed, the row it inserted
    txRead,         \* the last getTransaction call on the current table
    accountsToTrack,\* table accountsToTrack
    setPc,          \* position of the setAccountsToTrack call
    setEntries,     \* its argument, [...accountAndNetworks]
    setSnapshot,    \* the table as it was when the rw scope began
    setPre,         \* the table as it was when the call was made
    setFailed,      \* TRUE when a request of the scope failed
    setOutcome,     \* how the last call's promise settled
    readPc,         \* position of the getAccountsToTrack call
    readCtx,        \* what was in flight when the read was issued
    lastRead,       \* the last array returned by getAccountsToTrack
    regFresh,       \* TRUE from a resolved replace until the next registry call
    blocks,         \* table blocks
    blockFault,     \* TRUE when the last insert of a header was rejected
    latestBlock,    \* the last getLatestBlock call on the current store and clock
    balances,       \* table balances
    nextBalanceId,  \* the next value of the auto-incremented key ++id
    latestBalance,  \* the last getLatestAccountBalance call on the current store and clock
    migrations,     \* table migrations
    migPc,          \* position of each getOrCreateDB call
    migNum,         \* its local numMigrations
    migStart,       \* Date.now() when it was called
    migRejected,    \* TRUE when the promise of its add request rejected
    migCalls,       \* number of calls made so far
    migDone,        \* number of calls completed so far
    migAdds,        \* number of add requests issued so far
    migOverlap,     \* TRUE once a call was made while another was in progress
    migFaulted,     \* TRUE once the promise of some call rejected
    migFirst        \* when the first completed call was made and when it completed

txVars == << transactions, txPc, txArg, txSrc, txExisting, txFault, txCalls, txPrev,
            txRead >>

regVars == << accountsToTrack, setPc, setEntries, setSnapshot, setPre, setFailed,
              setOutcome, readPc, readCtx, lastRead, regFresh >>

blockVars == << blocks, blockFault, latestBlock >>

balVars == << balances, nextBalanceId, latestBalance >>

migVars == << migrations, migPc, migNum, migStart, migRejected, migCalls, migDone,
              migAdds, migOverlap, migFaulted, migFirst >>

vars == << now, ticks, txVars, regVars, blockVars, balVars, migVars >>

\* ------------------------------------------------------------------------
\* Table transactions: "&[hash+network.name],hash,from,..."
\* ------------------------------------------------------------------------

\* A schema whose primary key also spans `from`.
TxPrimaryKeyWithFrom(r) == << r.hash, r.network, r.from >>

\* The first schema entry is the primary key: [hash+network.name].
TxPrimaryKey(r) == << r.hash, r.network >>

\* The index "[hash+network.name]" used by where(); it is flagged unique (&).
HashNetworkName(r) == << r.hash, r.network >>

\* Table.get(key): the row stored under the primary key, if any.
TableGet(table, key) == { r \in table : TxPrimaryKey(r) = key }

\* Table.put fails with a ConstraintError when a row with another primary
\* key holds the same value of a unique index.
PutViolates(table, row) ==
    \E r \in table : /\ TxPrimaryKey(r) # TxPrimaryKey(row)
                     /\ HashNetworkName(r) = HashNetworkName(row)

\* Table.put(row): insert, replacing the row with the same primary key.
TablePut(table, row) ==
    { r \in table : TxPrimaryKey(r) # TxPrimaryKey(row) } \cup { row }

\* A merge that also overwrites the provenance of the row.
ModifyWithSource(table, key, tx, src) ==
    { IF HashNetworkName(r) = key
        THEN [r EXCEPT !.blockHeight = tx.blockHeight,
                       !.blockHash = tx.blockHash,
                       !.dataSource = src]
        ELSE r : r \in table }

\* A merge that stamps firstSeen again.
ModifyRestamping(table, key, tx, src) ==
    { IF HashNetworkName(r) = key
        THEN [r EXCEPT !.blockHeight = tx.blockHeight,
                       !.blockHash = tx.blockHash,
                       !.firstSeen = now]
        ELSE r : r \in table }

\* A merge that never takes a block association away.
ModifyKeepingConfirmed(table, key, tx, src) ==
    { IF HashNetworkName(r) = key /\ tx.blockHeight # Null
        THEN [r EXCEPT !.blockHeight = tx.blockHeight,
                       !.blockHash = tx.blockHash]
        ELSE r : r \in table }

\* where("[hash+network.name]").equals(key)
\*     .modify({ blockHeight: tx.blockHeight, blockHash: tx.blockHash })
Modify(table, key, tx, src) ==
    { IF HashNetworkName(r) = key
        THEN [r EXCEPT !.blockHeight = tx.blockHeight,
                       !.blockHash = tx.blockHash]
        ELSE r : r \in table }

\* A row that is always marked as local.
NewTransactionRowAsLocal(tx, src) ==
    [hash |-> tx.hash, network |-> tx.network, from |-> tx.from,
     blockHeight |-> tx.blockHeight, blockHash |-> tx.blockHash,
     firstSeen |-> now, dataSource |-> "local"]

\* { ...tx, firstSeen: Date.now(), dataSource }
NewTransactionRow(tx, src) ==
    [hash |-> tx.hash, network |-> tx.network, from |-> tx.from,
     blockHeight |-> tx.blockHeight, blockHash |-> tx.blockHash,
     firstSeen |-> now, dataSource |-> src]

\* A scope that never holds the table.
TxScopeNeverHeld == FALSE

\* The rw scope on transactions is held from the first request to commit.
TxScopeHeld == \E p \in Callers : txPc[p] \in { "got", "wrote" }

\* The stored rows of one (hash, network.name) pair.
RowsOf(table, h, n) == { r \in table : r.hash = h /\ r.network = n }

\* The argument slot of a caller that is not in a call.
NoTx == CHOOSE t \in EVMTransactions : TRUE

\* addOrUpdateTransaction(tx, dataSource) is called.
AddOrUpdateCall(p, tx, src) ==
    /\ txPc[p] = "idle"
    /\ txCalls < MaxTxCalls
    /\ txPc' = [txPc EXCEPT ![p] = "queued"]
    /\ txArg' = [txArg EXCEPT ![p] = tx]
    /\ txSrc' = [txSrc EXCEPT ![p] = src]
    /\ txFault' = [txFault EXCEPT ![p] = FALSE]
    /\ txCalls' = txCalls + 1
    /\ txRead' = NoQuery
    /\ UNCHANGED << now, ticks, transactions, txExisting, txPrev >>
    /\ UNCHANGED << regVars, blockVars, balVars, migVars >>

\* const existingTx = await this.transactions.get(key)
AddOrUpdateGet(p) ==
    /\ txPc[p] = "queued"
    /\ ~TxScopeHeld
    /\ txExisting' = [txExisting EXCEPT
                        ![p] = TableGet(transactions, << txArg[p].hash, txArg[p].network >>)]
    /\ txPc' = [txPc EXCEPT ![p] = "got"]
    /\ txRead' = NoQuery
    /\ UNCHANGED << now, ticks, transactions, txArg, txSrc, txFault, txCalls, txPrev >>
    /\ UNCHANGED << regVars, blockVars, balVars, migVars >>

\* if (existingTx) { ...modify(...) } else { ...put(...) }
AddOrUpdateWrite(p) ==
    /\ txPc[p] = "got"
    /\ LET key == << txArg[p].hash, txArg[p].network >>
           row == NewTransactionRow(txArg[p], txSrc[p])
       IN  IF txExisting[p] # {}
             THEN /\ transactions' = Modify(transactions, key, txArg[p], txSrc[p])
                  /\ UNCHANGED txFault
             ELSE IF PutViolates(transactions, row)
                    THEN /\ txFault' = [txFault EXCEPT ![p] = TRUE]
                         /\ UNCHANGED transactions
                    ELSE /\ transactions' = TablePut(transactions, row)
                         /\ UNCHANGED txFault
    /\ txPc' = [txPc EXCEPT ![p] = "wrote"]
    /\ txRead' = NoQuery
    /\ UNCHANGED << now, ticks, txArg, txSrc, txExisting, txCalls, txPrev >>
    /\ UNCHANGED << regVars, blockVars, balVars, migVars >>

\* The scope commits and the promise of addOrUpdateTransaction settles.
AddOrUpdateCommit(p) ==
    /\ txPc[p] = "wrote"
    /\ txPc' = [txPc EXCEPT ![p] = "idle"]
    /\ txPrev' = Some([tx |-> txArg[p], src |-> txSrc[p], at |-> now,
                        inserted |-> IF txExisting[p] = {} /\ ~txFault[p]
                                       THEN RowsOf(transactions, txArg[p].hash, txArg[p].network)
                                       ELSE {}])
    /\ txArg' = [txArg EXCEPT ![p] = NoTx]
    /\ txSrc' = [txSrc EXCEPT ![p] = "local"]
    /\ txExisting' = [txExisting EXCEPT ![p] = {}]
    /\ txRead' = NoQuery
    /\ UNCHANGED << now, ticks, transactions, txFault, txCalls >>
    /\ UNCHANGED << regVars, blockVars, balVars, migVars >>

\* ------------------------------------------------------------------------
\* Table accountsToTrack:
\*   "&[account+network.name+network.chainID],account,network.family,..."
\* ------------------------------------------------------------------------

\* The primary key [account+network.name+network.chainID].
RegKey(r) == << r.account, r.name, r.chainID >>

\* The rows of an array.
Range(s) == { s[i] : i \in 1..Len(s) }

\* A clear that removes nothing.
ClearNothing(table) == table

\* Table.clear()
Clear(table) == {}

\* Table.put(accountNetwork)
RegPut(table, row) == { r \in table : RegKey(r) # RegKey(row) } \cup { row }

\* Table.bulkAdd(items): every item is added in order; an item whose primary
\* key is already stored is not added and makes the bulkAdd promise reject.
RECURSIVE BulkAdd(_, _)
BulkAdd(table, items) ==
    IF items = << >>
      THEN [table |-> table, failed |-> FALSE]
      ELSE IF \E r \in table : RegKey(r) = RegKey(Head(items))
             THEN [table |-> BulkAdd(table, Tail(items)).table, failed |-> TRUE]
             ELSE BulkAdd(table \cup { Head(items) }, Tail(items))

\* A scope that commits whatever became of its requests.
ScopeEndCommitting(current, snapshot, failed) == current

\* The end of the rw scope whose function () => { clear(); bulkAdd(...) }
\* returns no promise: the rejection of a request that nothing handles
\* rejects the scope, which aborts the transaction and restores the table.
ScopeEnd(current, snapshot, failed) == IF failed THEN snapshot ELSE current

\* The rw scope on accountsToTrack is held from its first request to its end.
RegScopeHeld == setPc \in { "cleared", "added" }

\* A read that does not wait for the scope.
CanReadAnytime == TRUE

\* toArray() runs in its own read transaction, which waits for a rw scope on
\* the same table.
CanRead == ~RegScopeHeld

\* No read has returned during or since the last replace / no read is issued.
NoRead == [val |-> {}, issuedAt |-> "none", fresh |-> FALSE]

NoReadCtx == [issuedAt |-> "none", fresh |-> FALSE]

\* setAccountsToTrack(accountAndNetworks) is called.
SetAccountsCall(entries) ==
    /\ setPc = "idle"
    /\ readPc = "idle"
    /\ setPc' = "queued"
    /\ setEntries' = entries
    /\ setPre' = accountsToTrack
    /\ setOutcome' = "pending"
    /\ lastRead' = NoRead
    /\ regFresh' = FALSE
    /\ UNCHANGED << accountsToTrack, setSnapshot, setFailed, readPc, readCtx >>
    /\ UNCHANGED << now, ticks, txVars, blockVars, balVars, migVars >>

\* The scope begins once the transactions created before it have finished;
\* this.accountsToTrack.clear()
SetAccountsClear ==
    /\ setPc = "queued"
    /\ readPc = "idle"
    /\ setSnapshot' = accountsToTrack
    /\ accountsToTrack' = Clear(accountsToTrack)
    /\ setFailed' = FALSE
    /\ regFresh' = FALSE
    /\ setPc' = "cleared"
    /\ UNCHANGED << setEntries, setPre, setOutcome, readPc, readCtx, lastRead >>
    /\ UNCHANGED << now, ticks, txVars, blockVars, balVars, migVars >>

\* this.accountsToTrack.bulkAdd([...accountAndNetworks])
SetAccountsBulkAdd ==
    /\ setPc = "cleared"
    /\ LET res == BulkAdd(accountsToTrack, setEntries)
       IN  /\ accountsToTrack' = res.table
           /\ setFailed' = res.failed
    /\ setPc' = "added"
    /\ UNCHANGED << setEntries, setSnapshot, setPre, setOutcome, readPc, readCtx,
                    lastRead, regFresh >>
    /\ UNCHANGED << now, ticks, txVars, blockVars, balVars, migVars >>

\* The scope ends: it commits, or aborts when a request failed uncaught, and
\* the promise of setAccountsToTrack settles on the scope's completion.
SetAccountsSettle ==
    /\ setPc = "added"
    /\ accountsToTrack' = ScopeEnd(accountsToTrack, setSnapshot, setFailed)
    /\ IF setFailed
         THEN /\ setOutcome' = "rejected"
              /\ regFresh' = FALSE
         ELSE /\ setOutcome' = "resolved"
              /\ regFresh' = TRUE
    /\ setPc' = "idle"
    /\ UNCHANGED << setEntries, setSnapshot, setPre, setFailed, readPc, readCtx, lastRead >>
    /\ UNCHANGED << now, ticks, txVars, blockVars, balVars, migVars >>

\* addAccountToTrack(accountNetwork), called while no other registry
\* operation is in flight.
AddAccountToTrack(row) ==
    /\ setPc = "idle"
    /\ readPc = "idle"
    /\ accountsToTrack' = RegPut(accountsToTrack, row)
    /\ regFresh' = FALSE
    /\ UNCHANGED << setPc, setEntries, setSnapshot, setPre, setFailed, setOutcome,
                    readPc, readCtx, lastRead >>
    /\ UNCHANGED << now, ticks, txVars, blockVars, balVars, migVars >>

\* getAccountsToTrack() is called.
GetAccountsIssue ==
    /\ readPc = "idle"
    /\ readPc' = "issued"
    /\ readCtx' = [issuedAt |-> setPc, fresh |-> regFresh]
    /\ UNCHANGED << accountsToTrack, setPc, setEntries, setSnapshot, setPre, setFailed,
                    setOutcome, lastRead, regFresh >>
    /\ UNCHANGED << now, ticks, txVars, blockVars, balVars, migVars >>

\* return this.accountsToTrack.toArray()
GetAccountsReturn ==
    /\ readPc = "issued"
    /\ CanRead
    /\ lastRead' = [val |-> accountsToTrack, issuedAt |-> readCtx.issuedAt,
                    fresh |-> readCtx.fresh]
    /\ readPc' = "idle"
    /\ readCtx' = NoReadCtx
    /\ UNCHANGED << accountsToTrack, setPc, setEntries, setSnapshot, setPre, setFailed,
                    setOutcome, regFresh >>
    /\ UNCHANGED << now, ticks, txVars, blockVars, balVars, migVars >>

\* ------------------------------------------------------------------------
\* Table blocks:
\*   "&[hash+network.name],[network.name+timestamp],hash,network.name,..."
\* ------------------------------------------------------------------------

\* A key that also spans the timestamp.
BlockKeyWithTimestamp(b) == << b.hash, b.network, b.timestamp >>

\* The primary key [hash+network.name] of a header.
BlockKey(b) == << b.hash, b.network >>

\* Order of the keys of the index [network.name+timestamp]: arrays compare
\* element by element, names as strings, timestamps as numbers.
NameTimestampLess(n1, t1, n2, t2) ==
    \/ NameRank(n1) < NameRank(n2)
    \/ n1 = n2 /\ t1 < t2

\* Order in which a cursor on [network.name+timestamp] meets two rows: by
\* index key, then by primary key.
BlockIndexLess(a, b) ==
    \/ NameTimestampLess(a.network, a.timestamp, b.network, b.timestamp)
    \/ /\ a.network = b.network
       /\ a.timestamp = b.timestamp
       /\ HashRank(a.hash) < HashRank(b.hash)

\* 60 * 60 * 24
RecencyWindow == 60 * 60 * 24

\* where("[network.name+timestamp]").above([network.name, lower]): every row
\* whose index key is greater than the bound; the range has no upper bound.
BlocksAbove(table, name, lower) ==
    { b \in table : NameTimestampLess(name, lower, b.network, b.timestamp) }

\* .reverse(): the rows of the collection as a descending cursor meets them.
RECURSIVE BlocksReversed(_)
BlocksReversed(rows) ==
    IF rows = {}
      THEN << >>
      ELSE LET top == CHOOSE b \in rows : \A c \in rows \ { b } : BlockIndexLess(c, b)
           IN  << top >> \o BlocksReversed(rows \ { top })

\* Array.sort with the comparator of a reversed collection: descending by
\* the field, rows with equal fields keep their order.
RECURSIVE InsertDescending(_, _, _)
InsertDescending(sorted, row, field) ==
    IF sorted = << >>
      THEN << row >>
      ELSE IF Head(sorted)[field] >= row[field]
             THEN << Head(sorted) >> \o InsertDescending(Tail(sorted), row, field)
             ELSE << row >> \o sorted

RECURSIVE SortedDescending(_, _)
SortedDescending(rows, field) ==
    IF rows = << >>
      THEN << >>
      ELSE InsertDescending(SortedDescending(SubSeq(rows, 1, Len(rows) - 1), field),
                            rows[Len(rows)], field)

\* Collection.sortBy(keyPath) returns a promise of the sorted array.
SortBy(rows, field) == [promise |-> TRUE, array |-> SortedDescending(rows, field)]

\* await: the array a promise resolves to.
Await(p) == [promise |-> FALSE, array |-> p.array]

\* x[0]: element 0 of an array, undefined on an empty array and on any object
\* that has no property "0", such as a promise.
ElementZero(x) ==
    IF x.promise
      THEN Null
      ELSE IF Len(x.array) > 0 THEN Some(x.array[1]) ELSE Null

\* this.blocks.where("[network.name+timestamp]")
\*     .above([network.name, Date.now() - 60 * 60 * 24]).reverse().sortBy("timestamp")
LatestBlockCandidates(name) ==
    SortBy(BlocksReversed(BlocksAbove(blocks, name, now - RecencyWindow)), "timestamp")

\* getLatestBlock(network): element [0] of what sortBy returns.
GetLatestBlock(name) ==
    /\ latestBlock' = [asked |-> TRUE, network |-> name,
                       candidates |-> LatestBlockCandidates(name).array,
                       result |-> ElementZero(LatestBlockCandidates(name))]
    /\ UNCHANGED << blocks, blockFault, balVars >>
    /\ UNCHANGED << now, ticks, txVars, regVars, migVars >>

\* A header is stored: blocks.add(header) is rejected when the key
\* (hash, network.name) is already stored.
BlocksAdd(h, name, age) ==
    /\ Cardinality(blocks) < MaxBlocks
    /\ LET b == [hash |-> h, network |-> name, timestamp |-> now - age]
       IN  IF \E c \in blocks : BlockKey(c) = BlockKey(b)
             THEN /\ blockFault' = TRUE
                  /\ UNCHANGED blocks
             ELSE /\ blockFault' = FALSE
                  /\ blocks' = blocks \cup { b }
    /\ latestBlock' = NoQuery
    /\ UNCHANGED balVars
    /\ UNCHANGED << now, ticks, txVars, regVars, migVars >>

\* ------------------------------------------------------------------------
\* Table balances: "++id,account,...,network.name,blockHeight,retrievedAt"
\* ------------------------------------------------------------------------

\* A window of 7 * 24 * 60 * 60, the count of seconds.
FreshnessWindowSeconds == 7 * 24 * 60 * 60

\* 7 * 24 * 60 * 60 * 1000
FreshnessWindow == 7 * 24 * 60 * 60 * 1000

\* where("retrievedAt").above(lower)
BalancesAbove(table, lower) == { b \in table : b.retrievedAt > lower }

\* A filter that does not look at the network.
BalanceMatchesAnyNetwork(balance, account, network, symbol) ==
    /\ balance.account = account
    /\ balance.symbol = symbol

\* balance.account === account &&
\* balance.assetAmount.asset.symbol === asset.symbol &&
\* balance.network.name === network.name
BalanceMatches(balance, account, network, symbol) ==
    /\ balance.account = account
    /\ balance.symbol = symbol
    /\ balance.network = network

\* .reverse(): the rows as a descending cursor on retrievedAt meets them, by
\* index key, then by primary key id.
RECURSIVE BalancesReversed(_)
BalancesReversed(rows) ==
    IF rows = {}
      THEN << >>
      ELSE LET top == CHOOSE b \in rows : \A c \in rows \ { b } :
                          \/ c.retrievedAt < b.retrievedAt
                          \/ c.retrievedAt = b.retrievedAt /\ c.id < b.id
           IN  << top >> \o BalancesReversed(rows \ { top })

\* await this.balances.where("retrievedAt").above(Date.now() - 7 * 24 * 60 * 60 * 1000)
\*     .filter(...).reverse().sortBy("retrievedAt")
BalanceCandidates(account, network, symbol) ==
    Await(SortBy(BalancesReversed(
            { b \in BalancesAbove(balances, now - FreshnessWindow) :
                  BalanceMatches(b, account, network, symbol) }),
          "retrievedAt"))

\* getLatestAccountBalance(account, network, asset):
\* balanceCandidates.length > 0 ? balanceCandidates[0] : null
GetLatestAccountBalance(account, network, symbol) ==
    /\ latestBalance' = [asked |-> TRUE, account |-> account, network |-> network,
                         symbol |-> symbol,
                         result |-> IF Len(BalanceCandidates(account, network, symbol).array) > 0
                                      THEN ElementZero(BalanceCandidates(account, network, symbol))
                                      ELSE Null]
    /\ UNCHANGED << balances, nextBalanceId, blockVars >>
    /\ UNCHANGED << now, ticks, txVars, regVars, migVars >>

\* A balance is recorded: balances.add(balance) appends a row under the next
\* auto-incremented id.
BalancesAdd(subject, age) ==
    /\ Cardinality(balances) < MaxBalances
    /\ balances' = balances \cup
          { [id |-> nextBalanceId, account |-> subject.account, symbol |-> subject.symbol,
             network |-> subject.network, retrievedAt |-> now - age] }
    /\ nextBalanceId' = nextBalanceId + 1
    /\ latestBalance' = NoQuery
    /\ UNCHANGED blockVars
    /\ UNCHANGED << now, ticks, txVars, regVars, migVars >>

\* ------------------------------------------------------------------------
\* getTransaction
\* ------------------------------------------------------------------------

\* Hashes a reader may ask for: the stored ones and one that is never stored.
QueryHashes == Hashes \cup { "0xF" }

\* A lookup that matches the hash alone.
TxWhereHashEquals(table, key) == { r \in table : r.hash = key[1] }

\* where("[hash+network.name]").equals([txHash, network.name])
TxWhereEquals(table, key) == { r \in table : HashNetworkName(r) = key }

\* .toArray(): the rows in the order of the index [hash+network.name].
RECURSIVE TxToArray(_)
TxToArray(rows) ==
    IF rows = {}
      THEN << >>
      ELSE LET first == CHOOSE r \in rows :
                            \A c \in rows : NameRank(r.network) <= NameRank(c.network)
           IN  << first >> \o TxToArray(rows \ { first })

\* getTransaction(network, txHash): (await ...toArray())[0] || null.  The read
\* runs in its own transaction, which waits for a rw scope on the table.
GetTransaction(network, txHash) ==
    /\ ~TxScopeHeld
    /\ txRead' = [asked |-> TRUE, network |-> network, hash |-> txHash,
                  result |-> ElementZero(Await(
                      [promise |-> TRUE,
                       array |-> TxToArray(TxWhereEquals(transactions, << txHash, network >>))]))]
    /\ UNCHANGED << transactions, txPc, txArg, txSrc, txExisting, txFault, txCalls, txPrev >>
    /\ UNCHANGED << now, ticks, regVars, blockVars, balVars, migVars >>

\* ------------------------------------------------------------------------
\* Table migrations: "++id,appliedAt", and getOrCreateDB
\* ------------------------------------------------------------------------

\* A marker that carries no time.
InitialMigrationUnstamped == [id |-> 0, appliedAt |-> 0]

\* { id: 0, appliedAt: Date.now() }
InitialMigration == [id |-> 0, appliedAt |-> now]

\* db.migrations.count()
MigCount(table) == Cardinality(table)

\* Table.add(row) with a row that carries its primary key id: the row is
\* stored under that key; when the key is already stored nothing is stored
\* and the promise of the request rejects with a ConstraintError.
MigAdd(table, row) ==
    IF \E r \in table : r.id = row.id
      THEN [table |-> table, failed |-> TRUE]
      ELSE [table |-> table \cup { row }, failed |-> FALSE]

\* A scope function that awaits its add request.
ScopeFunctionAwaiting(addRejected) == addRejected

\* async () => { db.migrations.add(...) }: the promise of the add request is
\* neither awaited nor returned, so the promise the scope function returns
\* fulfils whatever becomes of the request; the rejected request is kept from
\* aborting the transaction, which commits.
ScopeFunctionRejects(addRejected) == FALSE

\* A rw scope on migrations holds the table from its first request to its
\* commit.
MigScopeHeld == \E p \in Callers : migPc[p] = "scoped"

\* getOrCreateDB() is called: const db = await getDB()
GetOrCreateCall(p) ==
    /\ migPc[p] = "idle"
    /\ migCalls < MaxMigCalls
    /\ migPc' = [migPc EXCEPT ![p] = "opened"]
    /\ migStart' = [migStart EXCEPT ![p] = now]
    /\ migCalls' = migCalls + 1
    /\ migOverlap' = (migOverlap \/ \E q \in Callers \ { p } : migPc[q] # "idle")
    /\ UNCHANGED << migrations, migNum, migRejected, migDone, migAdds, migFaulted, migFirst >>
    /\ UNCHANGED << now, ticks, txVars, regVars, blockVars, balVars >>

\* const numMigrations = await db.migrations.count()
GetOrCreateCount(p) ==
    /\ migPc[p] = "opened"
    /\ ~MigScopeHeld
    /\ migNum' = [migNum EXCEPT ![p] = MigCount(migrations)]
    /\ migPc' = [migPc EXCEPT ![p] = "counted"]
    /\ UNCHANGED << migrations, migStart, migRejected, migCalls, migDone, migAdds,
                    migOverlap, migFaulted, migFirst >>
    /\ UNCHANGED << now, ticks, txVars, regVars, blockVars, balVars >>

\* The call settles: return db, or the rejection of an awaited promise.
GetOrCreateSettle(p, fault) ==
    /\ migPc' = [migPc EXCEPT ![p] = "idle"]
    /\ migNum' = [migNum EXCEPT ![p] = 0]
    /\ migStart' = [migStart EXCEPT ![p] = 0]
    /\ migRejected' = [migRejected EXCEPT ![p] = FALSE]
    /\ migDone' = migDone + 1
    /\ migFaulted' = (migFaulted \/ fault)
    /\ migFirst' = IF migFirst = Null
                     THEN Some([from |-> migStart[p], to |-> now])
                     ELSE migFirst
    /\ UNCHANGED << migrations, migCalls, migAdds, migOverlap >>
    /\ UNCHANGED << now, ticks, txVars, regVars, blockVars, balVars >>

\* numMigrations === 0 is false: return db
GetOrCreateSkip(p) ==
    /\ migPc[p] = "counted"
    /\ migNum[p] # 0
    /\ GetOrCreateSettle(p, FALSE)

\* numMigrations === 0: the rw scope begins and its function issues
\* db.migrations.add({ id: 0, appliedAt: Date.now() })
GetOrCreateAdd(p) ==
    /\ migPc[p] = "counted"
    /\ migNum[p] = 0
    /\ ~MigScopeHeld
    /\ LET res == MigAdd(migrations, InitialMigration)
       IN  /\ migrations' = res.table
           /\ migRejected' = [migRejected EXCEPT ![p] = res.failed]
    /\ migAdds' = migAdds + 1
    /\ migPc' = [migPc EXCEPT ![p] = "scoped"]
    /\ UNCHANGED << migNum, migStart, migCalls, migDone, migOverlap, migFaulted, migFirst >>
    /\ UNCHANGED << now, ticks, txVars, regVars, blockVars, balVars >>

\* The transaction completes and await db.transaction(...) settles; return db
GetOrCreateCommit(p) ==
    /\ migPc[p] = "scoped"
    /\ GetOrCreateSettle(p, ScopeFunctionRejects(migRejected[p]))

\* Date.now() advances.
Tick ==
    /\ ticks < MaxTicks
    /\ now' = now + ClockStep
    /\ ticks' = ticks + 1
    /\ latestBlock' = NoQuery
    /\ latestBalance' = NoQuery
    /\ UNCHANGED << txVars, regVars, blocks, blockFault, balances, nextBalanceId >>
    /\ UNCHANGED migVars


Init ==
    /\ now = Epoch
    /\ ticks = 0
    /\ accountsToTrack = {}
    /\ setPc = "idle"
    /\ setEntries = << >>
    /\ setSnapshot = {}
    /\ setPre = {}
    /\ setFailed = FALSE
    /\ setOutcome = "none"
    /\ readPc = "idle"
    /\ readCtx = NoReadCtx
    /\ lastRead = NoRead
    /\ regFresh = FALSE
    /\ blocks = {}
    /\ blockFault = FALSE
    /\ latestBlock = NoQuery
    /\ balances = {}
    /\ nextBalanceId = 1
    /\ latestBalance = NoQuery
    /\ transactions = {}
    /\ txPc = [p \in Callers |-> "idle"]
    /\ txArg = [p \in Callers |-> NoTx]
    /\ txSrc = [p \in Callers |-> "local"]
    /\ txExisting = [p \in Callers |-> {}]
    /\ txFault = [p \in Callers |-> FALSE]
    /\ txCalls = 0
    /\ txPrev = Null
    /\ txRead = NoQuery
    /\ migrations = {}
    /\ migPc = [p \in Callers |-> "idle"]
    /\ migNum = [p \in Callers |-> 0]
    /\ migStart = [p \in Callers |-> 0]
    /\ migRejected = [p \in Callers |-> FALSE]
    /\ migCalls = 0
    /\ migDone = 0
    /\ migAdds = 0
    /\ migOverlap = FALSE
    /\ migFaulted = FALSE
    /\ migFirst = Null

NextTx ==
    \/ \E p \in Callers, tx \in EVMTransactions, src \in DataSources :
           AddOrUpdateCall(p, tx, src)
    \/ \E p \in Callers : AddOrUpdateGet(p)
    \/ \E p \in Callers : AddOrUpdateWrite(p)
    \/ \E p \in Callers : AddOrUpdateCommit(p)
    \/ Tick

SpecTx == Init /\ [][NextTx]_vars

\* The transactions handed to addOrUpdateTransaction while readers run: those
\* of one sender.
ReadTransactions == { tx \in EVMTransactions : tx.from = "a1" }

NextTxRead ==
    \/ \E p \in Callers, tx \in ReadTransactions, src \in DataSources :
           AddOrUpdateCall(p, tx, src)
    \/ \E p \in Callers : AddOrUpdateGet(p)
    \/ \E p \in Callers : AddOrUpdateWrite(p)
    \/ \E p \in Callers : AddOrUpdateCommit(p)
    \/ \E n \in Networks, h \in QueryHashes : GetTransaction(n, h)
    \/ Tick

SpecTxRead == Init /\ [][NextTxRead]_vars

NextMig ==
    \/ \E p \in Callers : GetOrCreateCall(p)
    \/ \E p \in Callers : GetOrCreateCount(p)
    \/ \E p \in Callers : GetOrCreateSkip(p)
    \/ \E p \in Callers : GetOrCreateAdd(p)
    \/ \E p \in Callers : GetOrCreateCommit(p)
    \/ Tick

SpecMig == Init /\ [][NextMig]_vars

NextReg ==
    \/ \E entries \in EntryLists : SetAccountsCall(entries)
    \/ SetAccountsClear
    \/ SetAccountsBulkAdd
    \/ SetAccountsSettle
    \/ \E row \in AccountNetworks : AddAccountToTrack(row)
    \/ GetAccountsIssue
    \/ GetAccountsReturn

SpecReg == Init /\ [][NextReg]_vars

NextBlocks ==
    \/ \E h \in BlockHashes, name \in Networks, age \in BlockAges : BlocksAdd(h, name, age)
    \/ \E name \in Networks : GetLatestBlock(name)
    \/ Tick

SpecBlocks == Init /\ [][NextBlocks]_vars

NextBalances ==
    \/ \E subject \in BalanceSubjects, age \in BalanceAges : BalancesAdd(subject, age)
    \/ \E q \in BalanceSubjects : GetLatestAccountBalance(q.account, q.network, q.symbol)
    \/ Tick

SpecBalances == Init /\ [][NextBalances]_vars

\* ------------------------------------------------------------------------
\* Properties of the transactions table (SpecTx)
\* ------------------------------------------------------------------------

\* C1: a step of addOrUpdateTransaction on a key that is already stored
\* changes at most blockHeight and blockHash of that row; every other field,
\* firstSeen and dataSource included, keeps its value over any sequence of
\* calls.
C1_MergeChangesOnlyBlockFields ==
    [][\A r \in transactions : \A s \in transactions' :
          (r.hash = s.hash /\ r.network = s.network)
             => s = [r EXCEPT !.blockHeight = s.blockHeight,
                              !.blockHash = s.blockHash]]_vars

\* A row inserted as "local" and pending has been merged by an "alchemy" call
\* with another sender, at a later time: only the block fields moved.
C1_Witness ==
    \E p \in Callers :
        /\ txPc[p] = "wrote"
        /\ txSrc[p] = "alchemy"
        /\ \E e \in txExisting[p] :
           \E r \in RowsOf(transactions, txArg[p].hash, txArg[p].network) :
              /\ e.dataSource = "local"
              /\ r.dataSource = "local"
              /\ r.firstSeen = e.firstSeen
              /\ r.firstSeen < now
              /\ r.from = e.from
              /\ r.from # txArg[p].from
              /\ e.blockHeight = Null
              /\ r.blockHeight = Some(100)
              /\ r.blockHash = Some("0xB")

\* C2: under every interleaving of addOrUpdateTransaction calls the table
\* holds at most one row per (hash, network.name), and no call fails with a
\* ConstraintError.
C2_OneRowPerKey ==
    /\ \A h \in Hashes, n \in Networks :
          Cardinality(RowsOf(transactions, h, n)) <= 1
    /\ \A p \in Callers : ~txFault[p]

\* Two calls for the same key are in flight together; the one that holds the
\* scope found the row and merged into it.
C2_Witness ==
    \E p \in Callers, q \in Callers :
        /\ p # q
        /\ txPc[p] = "wrote"
        /\ txExisting[p] # {}
        /\ txPc[q] = "queued"
        /\ txArg[q].hash = txArg[p].hash
        /\ txArg[q].network = txArg[p].network
        /\ txArg[q].from # txArg[p].from
        /\ Cardinality(RowsOf(transactions, txArg[p].hash, txArg[p].network)) = 1

\* C3: when addOrUpdateTransaction(tx, dataSource) is called again right
\* after a completed call with the same arguments, its write leaves the
\* table as the first call left it, with exactly one row for the key.
C3_Idempotent ==
    [][\A p \in Callers :
          ( /\ txPc[p] = "got"
            /\ txPc'[p] = "wrote"
            /\ txPrev # Null
            /\ txPrev[1].tx = txArg[p]
            /\ txPrev[1].src = txSrc[p] )
          => /\ transactions' = transactions
             /\ Cardinality(RowsOf(transactions', txArg[p].hash, txArg[p].network)) = 1]_vars

\* The second of two equal calls has written, later than the first call
\* completed, and the row still carries the firstSeen of the first call.
C3_Witness ==
    \E p \in Callers :
        /\ txPc[p] = "wrote"
        /\ txPrev # Null
        /\ txPrev[1].tx = txArg[p]
        /\ txPrev[1].src = txSrc[p]
        /\ txPrev[1].at < now
        /\ \E r \in RowsOf(transactions, txArg[p].hash, txArg[p].network) :
              r.firstSeen = txPrev[1].at

\* ------------------------------------------------------------------------
\* Properties of the accountsToTrack table (SpecReg)
\* ------------------------------------------------------------------------

\* C4: a getAccountsToTrack issued while a setAccountsToTrack call is in
\* flight returns the registry as it was before the call or exactly the
\* entries of the call, never the intermediate empty table or a mix.
C4_ReadSeesOldOrNew ==
    lastRead.issuedAt \in { "queued", "cleared", "added" }
        => lastRead.val \in { setPre, Range(setEntries) }

\* A read issued while the scope had emptied the table returned the new
\* entries; old and new registry are non-empty and differ.
C4_Witness ==
    /\ lastRead.issuedAt = "cleared"
    /\ lastRead.val = Range(setEntries)
    /\ setPre # {}
    /\ Range(setEntries) # {}
    /\ setPre \ Range(setEntries) # {}

\* C5: once setAccountsToTrack has resolved, the registry holds exactly the
\* rows of entries (until the next registry write), and a read issued then
\* returns exactly entries.
C5_ReplaceApplied ==
    /\ regFresh => accountsToTrack = Range(setEntries)
    /\ lastRead.fresh => lastRead.val = Range(setEntries)

\* A read issued after a resolved replace of a non-empty registry that held
\* rows outside entries returned entries.
C5_Witness ==
    /\ lastRead.fresh
    /\ setOutcome = "resolved"
    /\ Len(setEntries) = 2
    /\ setPre \ Range(setEntries) # {}
    /\ lastRead.val = Range(setEntries)

\* ------------------------------------------------------------------------
\* Properties of the blocks table (SpecBlocks)
\* ------------------------------------------------------------------------

\* One day in the unit of Date.now(), milliseconds.
DayMs == 24 * 60 * 60 * 1000

\* The stored headers of a network whose timestamp lies in the last 24 hours.
RecentBlocks(name) == { b \in blocks : b.network = name /\ b.timestamp > now - DayMs }

\* C6: getLatestBlock(network) returns the stored header of that network with
\* the greatest timestamp among those inside the recency window, and never a
\* header of another network.
C6_LatestBlockIsGreatestInWindow ==
    latestBlock.asked =>
        /\ RecentBlocks(latestBlock.network) # {} =>
              \E b \in RecentBlocks(latestBlock.network) :
                  /\ latestBlock.result = Some(b)
                  /\ \A c \in RecentBlocks(latestBlock.network) : c.timestamp <= b.timestamp
        /\ latestBlock.result # Null =>
              latestBlock.result[1].network = latestBlock.network

\* C7: the recency window of getLatestBlock is 24 hours in the unit of
\* Date.now(): every header of the queried network younger than 24 hours is
\* among the candidates, and no header older than 24 hours is returned.
C7_WindowIs24Hours ==
    latestBlock.asked =>
        /\ \A b \in RecentBlocks(latestBlock.network) :
              \E i \in 1..Len(latestBlock.candidates) : latestBlock.candidates[i] = b
        /\ latestBlock.result # Null =>
              latestBlock.result[1].timestamp >= now - DayMs

\* C8: getLatestBlock(network) yields NotFound exactly when no stored header
\* of that network lies inside the recency window, and it leaves the store
\* unchanged.
C8_NotFoundIffNoneInWindow ==
    [][latestBlock'.asked =>
          /\ blocks' = blocks
          /\ (latestBlock'.result = Null) <=> (RecentBlocks(latestBlock'.network) = {})]_vars

\* ------------------------------------------------------------------------
\* Properties of the balances table (SpecBalances)
\* ------------------------------------------------------------------------

\* The stored balances with the account, asset symbol and network of the
\* last query.
QueriedBalances ==
    { b \in balances : /\ b.account = latestBalance.account
                       /\ b.symbol = latestBalance.symbol
                       /\ b.network = latestBalance.network }

\* C9: getLatestAccountBalance never returns a matching row whose
\* retrievedAt is now - 8 days (null when it is the only match), and returns
\* a matching row whose retrievedAt is now - 6 days when it is the only match.
C9_SevenDayWindow ==
    latestBalance.asked =>
        /\ latestBalance.result # Null =>
              latestBalance.result[1].retrievedAt # now - 8 * DayMs
        /\ \A m \in QueriedBalances :
              (QueriedBalances = { m } /\ m.retrievedAt = now - 8 * DayMs)
                  => latestBalance.result = Null
        /\ \A m \in QueriedBalances :
              (QueriedBalances = { m } /\ m.retrievedAt = now - 6 * DayMs)
                  => latestBalance.result = Some(m)

\* The only matching row is 8 days old and the query returned null, while a
\* row of another subject that is 6 days old is stored.
C9_Witness ==
    /\ latestBalance.asked
    /\ latestBalance.result = Null
    /\ \E m \in QueriedBalances :
          /\ QueriedBalances = { m }
          /\ m.retrievedAt = now - 8 * DayMs
    /\ \E b \in balances \ QueriedBalances : b.retrievedAt = now - 6 * DayMs

\* The matching rows inside the 7 day freshness window.
FreshQueriedBalances == { b \in QueriedBalances : b.retrievedAt > now - 7 * DayMs }

\* C10: getLatestAccountBalance returns the row with the greatest retrievedAt
\* among the rows inside the freshness window that match account, asset
\* symbol and network, and null when there is none.
C10_LatestMatchingBalance ==
    latestBalance.asked =>
        IF FreshQueriedBalances = {}
          THEN latestBalance.result = Null
          ELSE /\ latestBalance.result # Null
               /\ latestBalance.result[1] \in FreshQueriedBalances
               /\ \A c \in FreshQueriedBalances :
                     c.retrievedAt <= latestBalance.result[1].retrievedAt

\* The query returned a row although an older matching row and a more recent
\* row of another network are stored.
C10_Witness ==
    /\ latestBalance.asked
    /\ latestBalance.result # Null
    /\ \E c \in FreshQueriedBalances : c.retrievedAt < latestBalance.result[1].retrievedAt
    /\ \E d \in balances :
          /\ d.account = latestBalance.account
          /\ d.symbol = latestBalance.symbol
          /\ d.network # latestBalance.network
          /\ d.retrievedAt > latestBalance.result[1].retrievedAt

\* ------------------------------------------------------------------------
\* Properties of getTransaction (SpecTxRead)
\* ------------------------------------------------------------------------

\* C11: getTransaction(network, txHash) returns the stored row with that hash
\* and network.name when there is one and null otherwise; never a row with
\* the same hash on another network.
C11_GetTransactionByKey ==
    txRead.asked =>
        IF RowsOf(transactions, txRead.hash, txRead.network) = {}
          THEN txRead.result = Null
          ELSE /\ txRead.result # Null
               /\ txRead.result[1] \in RowsOf(transactions, txRead.hash, txRead.network)

\* A read returned the row of its network while a different row with the
\* same hash is stored for the other network.
C11_Witness ==
    /\ txRead.asked
    /\ txRead.result # Null
    /\ txRead.result[1].network = txRead.network
    /\ \E r \in transactions :
          /\ r.hash = txRead.hash
          /\ r.network # txRead.network
          /\ r.blockHeight # txRead.result[1].blockHeight

\* ------------------------------------------------------------------------
\* Properties of addAccountToTrack (SpecReg)
\* ------------------------------------------------------------------------

\* The natural key of a registry entry: (account, network.family,
\* network.chainID, network.name).
NaturalKey(r) == << r.account, r.family, r.chainID, r.name >>

\* C12: addAccountToTrack(e) inserts or replaces exactly the row with the
\* natural key of e and leaves in place every row that differs from e in any
\* component of that key, network.family included; calling it twice with the
\* same entry equals calling it once.
C12_AddTouchesOnlyNaturalKey ==
    [][\A e \in AccountNetworks :
          AddAccountToTrack(e) =>
              /\ accountsToTrack' =
                     { r \in accountsToTrack : NaturalKey(r) # NaturalKey(e) } \cup { e }
              /\ RegPut(accountsToTrack', e) = accountsToTrack']_vars

\* ------------------------------------------------------------------------
\* Properties of getOrCreateDB (SpecMig)
\* ------------------------------------------------------------------------

\* C13: after one or more completed calls of getOrCreateDB made one after
\* another on an empty ledger, the ledger holds exactly one row, with id 0
\* and appliedAt the time of the first call; the later calls insert nothing
\* and do not fail.
C13_SequentialIdempotence ==
    (~migOverlap /\ migDone >= 1) =>
        /\ Cardinality(migrations) = 1
        /\ \A r \in migrations : /\ r.id = 0
                                 /\ migFirst[1].from <= r.appliedAt
                                 /\ r.appliedAt <= migFirst[1].to
        /\ migAdds = 1
        /\ ~migFaulted

\* Two calls ran one after the other and the second ran at a later time
\* than the first.
C13_Witness ==
    /\ ~migOverlap
    /\ migDone >= 2
    /\ \A p \in Callers : migPc[p] = "idle"
    /\ migFirst[1].to < now
    /\ \E r \in migrations : r.appliedAt < now

\* ------------------------------------------------------------------------
\* Uniqueness of stored headers (SpecBlocks)
\* ------------------------------------------------------------------------

\* C14: inserting a header whose hash and network.name equal those of a
\* stored header never yields two rows for that pair; the duplicate is
\* rejected or ignored and the stored header is left unmodified.
C14_BlockUniqueness ==
    [][/\ \A a, b \in blocks' :
              (a.hash = b.hash /\ a.network = b.network) => a = b
       /\ blocks \subseteq blocks'
       /\ blockFault' => blocks' = blocks]_vars

\* A header with the hash and network of a stored header was offered and
\* rejected.
C14_Witness ==
    /\ blockFault
    /\ blocks # {}

\* ------------------------------------------------------------------------
\* Atomicity of addOrUpdateTransaction (SpecTxRead)
\* ------------------------------------------------------------------------

\* C15: the lookup and the merge-or-insert of addOrUpdateTransaction are one
\* atomic step: of interleaved calls on one key, a call inserts exactly when
\* the key is not stored at the time it writes, so one inserts and the other
\* merges; no getTransaction sees blockHeight of one call with blockHash of
\* another.
C15_LookupAndWriteAtomic ==
    [][/\ \A p \in Callers :
              (txPc[p] = "got" /\ txPc'[p] = "wrote") =>
                  ((txExisting[p] = {}) <=>
                       (RowsOf(transactions, txArg[p].hash, txArg[p].network) = {}))
       /\ (txRead'.asked /\ txRead'.result # Null) =>
              [blockHeight |-> txRead'.result[1].blockHeight,
               blockHash |-> txRead'.result[1].blockHash] \in BlockAssociations]_vars

\* Of two calls on one key, one has inserted and completed, a reader has
\* seen its row, and the other call, which carries another block
\* association, is still waiting for the table.
C15_Witness ==
    /\ txPrev # Null
    /\ txPrev[1].inserted # {}
    /\ txRead.asked
    /\ txRead.result # Null
    /\ txRead.result[1] \in txPrev[1].inserted
    /\ \E p \in Callers :
          /\ txPc[p] = "queued"
          /\ txArg[p].hash = txPrev[1].tx.hash
          /\ txArg[p].network = txPrev[1].tx.network
          /\ txArg[p].blockHeight # txPrev[1].tx.blockHeight

\* ------------------------------------------------------------------------
\* Last write wins on the merge path (SpecTx)
\* ------------------------------------------------------------------------

\* C16: on the merge path the stored blockHeight and blockHash become those
\* of the call unconditionally, also when that takes them from a block back
\* to null; after any sequence of calls the stored pair is that of the most
\* recently completed call.
C16_LastWriteWins ==
    [][/\ \A p \in Callers :
              (txPc[p] = "got" /\ txPc'[p] = "wrote" /\ txExisting[p] # {}) =>
                  /\ RowsOf(transactions', txArg[p].hash, txArg[p].network) # {}
                  /\ \A r \in RowsOf(transactions', txArg[p].hash, txArg[p].network) :
                        /\ r.blockHeight = txArg[p].blockHeight
                        /\ r.blockHash = txArg[p].blockHash
       /\ (txPrev' # Null /\ \A p \in Callers : txPc'[p] # "wrote") =>
              /\ RowsOf(transactions', txPrev'[1].tx.hash, txPrev'[1].tx.network) # {}
              /\ \A r \in RowsOf(transactions', txPrev'[1].tx.hash, txPrev'[1].tx.network) :
                    /\ r.blockHeight = txPrev'[1].tx.blockHeight
                    /\ r.blockHash = txPrev'[1].tx.blockHash]_vars

\* A call has merged a pending transaction into a row that was stored with
\* block 100: the row is back to no block.
C16_Witness ==
    \E p \in Callers :
        /\ txPc[p] = "wrote"
        /\ txArg[p].blockHeight = Null
        /\ \E e \in txExisting[p] : e.blockHeight = Some(100)
        /\ \A r \in RowsOf(transactions, txArg[p].hash, txArg[p].network) :
              r.blockHeight = Null /\ r.blockHash = Null

\* ------------------------------------------------------------------------
\* The insert path of addOrUpdateTransaction (SpecTxRead)
\* ------------------------------------------------------------------------

\* C17: on the insert path exactly one row is added; it carries every field
\* of tx, firstSeen equal to the clock at the call and dataSource equal to
\* the argument; every other row is unchanged; a getTransaction that follows
\* for that hash and network returns the new row.
C17_InsertAddsOneRow ==
    [][/\ \A p \in Callers :
              (txPc[p] = "got" /\ txPc'[p] = "wrote" /\ txExisting[p] = {}) =>
                  /\ transactions' = transactions \cup
                         { [hash |-> txArg[p].hash, network |-> txArg[p].network,
                            from |-> txArg[p].from,
                            blockHeight |-> txArg[p].blockHeight,
                            blockHash |-> txArg[p].blockHash,
                            firstSeen |-> now, dataSource |-> txSrc[p]] }
                  /\ Cardinality(transactions') = Cardinality(transactions) + 1
       /\ ( /\ txRead'.asked
            /\ txPrev' # Null
            /\ txPrev'[1].inserted # {}
            /\ txRead'.hash = txPrev'[1].tx.hash
            /\ txRead'.network = txPrev'[1].tx.network ) =>
              /\ txRead'.result # Null
              /\ txPrev'[1].inserted = { txRead'.result[1] }
              /\ txRead'.result[1].dataSource = txPrev'[1].src
              /\ txRead'.result[1].from = txPrev'[1].tx.from
              /\ txRead'.result[1].blockHeight = txPrev'[1].tx.blockHeight
              /\ txRead'.result[1].blockHash = txPrev'[1].tx.blockHash
              /\ txRead'.result[1].firstSeen <= txPrev'[1].at]_vars

\* A transaction from alchemy was inserted after the clock advanced, next
\* to a row that was already stored, and a reader got the new row back.
C17_Witness ==
    /\ txRead.asked
    /\ txRead.result # Null
    /\ txPrev # Null
    /\ txRead.result[1] \in txPrev[1].inserted
    /\ txRead.result[1].dataSource = "alchemy"
    /\ txRead.result[1].firstSeen > Epoch
    /\ \E r \in transactions : r.network # txRead.network /\ r.firstSeen = Epoch

\* ------------------------------------------------------------------------
\* Failure of setAccountsToTrack (SpecReg)
\* ------------------------------------------------------------------------

\* C18: when setAccountsToTrack fails, as it does when two distinct entries
\* with the same registry key make bulkAdd violate uniqueness, the clear is
\* rolled back: the registry after the failed call equals the registry
\* before it, and is not left empty or partly filled.
C18_FailedReplaceRollsBack ==
    [][(setPc = "added" /\ setPc' = "idle" /\ setOutcome' = "rejected") =>
           accountsToTrack' = setPre]_vars

\* A call with two distinct entries of one registry key was rejected on a
\* registry that held another row, which is back in place.
C18_Witness ==
    /\ setPc = "idle"
    /\ setOutcome = "rejected"
    /\ Len(setEntries) = 2
    /\ setEntries[1] # setEntries[2]
    /\ RegKey(setEntries[1]) = RegKey(setEntries[2])
    /\ setPre # {}
    /\ setPre \cap Range(setEntries) = {}
    /\ accountsToTrack = setPre

\* C19: two calls of getOrCreateDB that interleave on an empty ledger both
\* complete without a fault, and the ledger ends with exactly one row, whose
\* id is 0.
C19_InterleavedInitialisation ==
    (migOverlap /\ migDone = migCalls) =>
        /\ ~migFaulted
        /\ Cardinality(migrations) = 1
        /\ \A r \in migrations : r.id = 0

\* Two calls overlapped, both counted an empty ledger and issued the add,
\* and both have completed.
C19_Witness ==
    /\ migOverlap
    /\ migDone = 2
    /\ migAdds = 2
    /\ \A p \in Callers : migPc[p] = "idle"

====
